---- MODULE Spec2Model ----
(***************************************************************************)
(* Model of monitor-wrapper.py: the loop that runs ./rekor_monitor once    *)
(* per interval, classifies its exit code and standard error, and counts   *)
(* the result in the Prometheus counter rekor_consistency_check_total.     *)
(***************************************************************************)
EXTENDS Integers, Sequences, FiniteSets, TLC

VARIABLES
    pc,                 \* where the __main__ loop stands (lines 72-74)
    rekor_check_total,  \* the labelled counter: status label |-> count
    result,             \* what subprocess.run returned in the latest call
    outcome,            \* the branch of the if/elif/else the latest call took
    raised,             \* the exception the latest call caught, or "None"
    log,                \* the records the latest call handed to logger / print
    check_interval,     \* CHECK_INTERVAL_SECONDS, read once at line 27
    checkpoint_dir,     \* CHECKPOINT_DIR, read once at line 30
    checkpoint_path,    \* line 31
    rekor_server_endpoint,  \* REKOR_SERVER_ENDPOINT, read once at line 32
    cmd,                \* the argument list of the latest subprocess.run
    children,           \* how many ./rekor_monitor processes are running
    before,             \* the counter as it stood when the latest call began
    memo                \* an earlier classified call, kept for comparison

\* the values resolved at start-up
config ==
    <<check_interval, checkpoint_dir, checkpoint_path, rekor_server_endpoint>>

vars ==
    <<pc, rekor_check_total, result, outcome, raised, log, config, cmd,
      children, before, memo>>

(***************************************************************************)
(* Bounds of the model.                                                    *)
(***************************************************************************)
\* most pieces a verifier output is assembled from
MaxPieces == 2
\* total of the counter at which the model stops starting new checks
MaxCount == 3

(***************************************************************************)
(* Text.  A text is a sequence of words; a word is its lower-case spelling *)
(* plus a flag telling whether it is written with upper-case letters.      *)
(* Substring search is search for a contiguous run of words, so a marker   *)
(* is found where it stands as whole words, in any letter case once the    *)
(* text is folded; a marker that begins or ends inside a longer word is    *)
(* outside the texts modelled here.                                        *)
(***************************************************************************)
W(s) == [w |-> s, up |-> FALSE]
U(s) == [w |-> s, up |-> TRUE]
Words(ss) == [i \in 1..Len(ss) |-> W(ss[i])]

\* str.lower(): every word loses its upper-case letters.
\* (faulty variant: the text is searched as written)
NoFold(t) == t
lower(t) == [i \in 1..Len(t) |-> [t[i] EXCEPT !.up = FALSE]]

\* Python's `m in t` on strings.
\* (faulty variant: startswith instead of in)
PrefixOnly(m, t) == Len(m) <= Len(t) /\ SubSeq(t, 1, Len(m)) = m
Contains(m, t) ==
    \E i \in 1..(Len(t) - Len(m) + 1) : SubSeq(t, i, i + Len(m) - 1) = m

\* The three markers, as written at lines 49, 55 and 59.
CONSISTENCY_VERIFIED == Words(<<"consistency", "verified">>)
EMPTY_LOG ==
    Words(<<"consistency", "proofs", "can", "not", "be", "computed",
            "starting", "from", "an", "empty", "log">>)
NO_CHECKPOINT ==
    Words(<<"no", "start", "index", "set", "and", "no", "log", "checkpoint">>)

(***************************************************************************)
(* What the verifier may write and return.                                 *)
(***************************************************************************)
Verified42 ==
    <<U("consistency"), U("verified")>>
        \o Words(<<"for", "checkpoint", "at", "index", "42">>)
EmptyLogError == <<U("error:")>> \o EMPTY_LOG
NoCheckpointAt ==
    NO_CHECKPOINT \o Words(<<"found", "at", "path", "/data/checkpoint_log.txt">>)
ConnectionRefused == Words(<<"connection", "refused">>)

Pieces ==
    { Verified42, EmptyLogError, NoCheckpointAt, ConnectionRefused,
      <<W("consistency")>>, <<U("verified")>>,
      Words(<<"proofs", "can", "not", "be", "computed", "starting", "from",
              "an", "empty", "log">>),
      <<U("no"), W("start"), W("index"), W("set")>>,
      Words(<<"and", "no", "log", "checkpoint">>) }

RECURSIVE Texts(_)
Texts(n) ==
    IF n = 0 THEN {<<>>}
    ELSE LET T == Texts(n - 1) IN T \cup {t \o p : t \in T, p \in Pieces}

Stderrs == Texts(MaxPieces)
Stdouts == {<<>>, Verified42, EmptyLogError, NoCheckpointAt}
\* a verifier that writes at most one message
OneLineStderrs == Texts(1)
OneLineStdouts == {<<>>, Verified42}
\* 0, an error exit, and death by signal (negative in subprocess)
ReturnCodes == {0, 1, -9}
\* what subprocess.run raises when ./rekor_monitor cannot be started
LaunchErrors == {"FileNotFoundError", "PermissionError"}
\* what it raises after the child exited, decoding the captured bytes
CaptureErrors == {"UnicodeDecodeError"}
\* values of CHECK_INTERVAL_SECONDS that int() accepts
CheckIntervals == {-1, 0, 5}
\* CHECKPOINT_DIR and REKOR_SERVER_ENDPOINT: unset (the defaults of lines
\* 30 and 32), or set for a private deployment
Deployments ==
    { [dir |-> "/data", url |-> "https://rekor.sigstore.dev"],
      [dir |-> "/var/rekor", url |-> "http://rekor-server:3000"] }

\* os.path.join(checkpoint_dir, name)
join(dir, name) == <<dir, name>>

\* lines 37-42: the argument list
Arg(name, value) == [name |-> name, value |-> value]
\* (faulty variant: --once=true is left out and the verifier runs on)
CommandNoOnce(path, url) ==
    << Arg("./rekor_monitor", <<>>), Arg("--file", path), Arg("--url", <<url>>) >>
Command(path, url) ==
    << Arg("./rekor_monitor", <<>>),
       Arg("--file", path),
       Arg("--once", <<"true">>),
       Arg("--url", <<url>>) >>

(***************************************************************************)
(* The counter (lines 8-12).  A labelled series exists from the first      *)
(* labels(status=...) call on.                                             *)
(***************************************************************************)
Labels == {"success", "failure"}
NoSeries == [l \in {} |-> 0]
Value(c, l) == IF l \in DOMAIN c THEN c[l] ELSE 0
Total(c) == Value(c, "success") + Value(c, "failure")

\* rekor_check_total.labels(status=l).inc()
\* (faulty variant: the increment is applied twice)
IncTwice(c, l) ==
    [x \in DOMAIN c \cup {l} |-> IF x = l THEN Value(c, l) + 2 ELSE c[x]]
\* (faulty variant: the series is set to 1, as a gauge would be)
IncSet(c, l) == [x \in DOMAIN c \cup {l} |-> IF x = l THEN 1 ELSE c[x]]
inc(c, l) == [x \in DOMAIN c \cup {l} |-> IF x = l THEN Value(c, l) + 1 ELSE c[x]]

(***************************************************************************)
(* Log records.                                                            *)
(***************************************************************************)
Logger(level, msg, text) ==
    [channel |-> "logger", level |-> level, msg |-> msg, text |-> text]
Printed(msg, text) ==
    [channel |-> "stdout", level |-> "NONE", msg |-> msg, text |-> text]

NoResult == [returncode |-> 0, stdout |-> <<>>, stderr |-> <<>>]
NoMemo ==
    [set |-> FALSE, result |-> NoResult, outcome |-> "None",
     dSuccess |-> 0, dFailure |-> 0, total |-> 0]

(***************************************************************************)
(* run_rekor_monitor, lines 46-66: the branch taken, the counter after it, *)
(* and the records it logs.                                                *)
(***************************************************************************)
\* (faulty variant: Success whatever the exit code)
classifyAnyExit(returncode, stderr_lower) ==
    IF Contains(CONSISTENCY_VERIFIED, stderr_lower) THEN "Success"
    ELSE IF returncode = 0 /\ Contains(EMPTY_LOG, stderr_lower)
        THEN "SkippedEmptyLog"
    ELSE IF Contains(NO_CHECKPOINT, stderr_lower)
        THEN "SkippedNoCheckpoint"
    ELSE "Failure"
\* (faulty variant: the two skip rules are missing)
classifyNoSkips(returncode, stderr_lower) ==
    IF returncode = 0 /\ Contains(CONSISTENCY_VERIFIED, stderr_lower)
        THEN "Success"
    ELSE "Failure"
\* (faulty variant: the no-checkpoint rule is tested first)
classifyCheckpointFirst(returncode, stderr_lower) ==
    IF Contains(NO_CHECKPOINT, stderr_lower) THEN "SkippedNoCheckpoint"
    ELSE IF returncode = 0 /\ Contains(CONSISTENCY_VERIFIED, stderr_lower)
        THEN "Success"
    ELSE IF returncode = 0 /\ Contains(EMPTY_LOG, stderr_lower)
        THEN "SkippedEmptyLog"
    ELSE "Failure"
\* (faulty variant: the empty-log rule does not look at the exit code)
classifyEmptyLogAnyExit(returncode, stderr_lower) ==
    IF returncode = 0 /\ Contains(CONSISTENCY_VERIFIED, stderr_lower)
        THEN "Success"
    ELSE IF Contains(EMPTY_LOG, stderr_lower)
        THEN "SkippedEmptyLog"
    ELSE IF Contains(NO_CHECKPOINT, stderr_lower)
        THEN "SkippedNoCheckpoint"
    ELSE "Failure"
\* (faulty variant: the final else is missing)
classifyNoElse(returncode, stderr_lower) ==
    IF returncode = 0 /\ Contains(CONSISTENCY_VERIFIED, stderr_lower)
        THEN "Success"
    ELSE IF returncode = 0 /\ Contains(EMPTY_LOG, stderr_lower)
        THEN "SkippedEmptyLog"
    ELSE IF Contains(NO_CHECKPOINT, stderr_lower)
        THEN "SkippedNoCheckpoint"
    ELSE "None"
classify(returncode, stderr_lower) ==
    IF returncode = 0 /\ Contains(CONSISTENCY_VERIFIED, stderr_lower)
        THEN "Success"
    ELSE IF returncode = 0 /\ Contains(EMPTY_LOG, stderr_lower)
        THEN "SkippedEmptyLog"
    ELSE IF Contains(NO_CHECKPOINT, stderr_lower)
        THEN "SkippedNoCheckpoint"
    ELSE "Failure"

\* (faulty variant: skips are counted under a third label)
RecordedSkipsToo(c, o) ==
    IF o = "Success" THEN inc(c, "success")
    ELSE IF o = "Failure" THEN inc(c, "failure")
    ELSE inc(c, "skipped")
Recorded(c, o) ==
    IF o = "Success" THEN inc(c, "success")
    ELSE IF o = "Failure" THEN inc(c, "failure")
    ELSE c

\* (faulty variant: the captured standard error is not logged)
LoggedOneLine(o, r) ==
    IF o = "Success"
        THEN <<Logger("INFO", "Rekor consistency check: SUCCESS", <<>>)>>
    ELSE IF o \in {"SkippedEmptyLog", "SkippedNoCheckpoint"}
        THEN <<Logger("INFO", "Rekor consistency check skipped", <<>>)>>
    ELSE <<Logger("ERROR", "Rekor consistency check: FAILURE", <<>>)>>
Logged(o, r) ==
    IF o = "Success"
        THEN <<Logger("INFO", "Rekor consistency check: SUCCESS", <<>>)>>
    ELSE IF o = "SkippedEmptyLog"
        THEN <<Logger("INFO",
                 "Rekor consistency check skipped: log is empty (not an error)",
                 <<>>)>>
    ELSE IF o = "SkippedNoCheckpoint"
        THEN <<Logger("INFO",
                 "Rekor consistency check skipped: no checkpoint found (first run)",
                 <<>>)>>
    ELSE <<Logger("ERROR", "Rekor consistency check: FAILURE", <<>>),
           Logger("ERROR", "", r.stderr)>>

\* lines 67-69: the except clause
\* (faulty variant: the except clause forgets the counter)
ExceptUncounted(c) == c
ExceptCounter(c) == inc(c, "failure")
ExceptLog(e) == <<Printed("Exception running rekor_monitor: ", <<U(e)>>)>>

(***************************************************************************)
(* The program.                                                            *)
(***************************************************************************)
Init ==
    /\ pc = "call"
    /\ rekor_check_total = NoSeries
    /\ result = NoResult
    /\ outcome = "None"
    /\ raised = "None"
    /\ log = <<>>
    /\ check_interval \in CheckIntervals
    /\ \E d \in Deployments :
          /\ checkpoint_dir = d.dir
          /\ checkpoint_path = join(d.dir, "checkpoint_log.txt")
          /\ rekor_server_endpoint = d.url
    /\ cmd = <<>>
    /\ children = 0
    /\ before = NoSeries
    /\ memo = NoMemo

\* line 73 calls run_rekor_monitor; the model starts no check past MaxCount
Enter ==
    /\ pc = "call"
    /\ Total(rekor_check_total) < MaxCount

\* lines 36-45: the child process is started and subprocess.run blocks on it
\* (faulty variant: the child is started and not waited for)
LaunchNoWait ==
    /\ pc = "call"
    /\ Total(rekor_check_total) < MaxCount
    /\ pc' = "sleep"
    /\ children' = children + 1
    /\ cmd' = Command(checkpoint_path, rekor_server_endpoint)
    /\ UNCHANGED <<rekor_check_total, result, outcome, raised, log,
                   config, before, memo>>
Launch ==
    /\ Enter
    /\ pc' = "running"
    /\ result' = NoResult
    /\ outcome' = "None"
    /\ raised' = "None"
    /\ log' = <<>>
    /\ children' = children + 1
    /\ before' = rekor_check_total
    /\ cmd' = Command(checkpoint_path, rekor_server_endpoint)
    /\ UNCHANGED <<rekor_check_total, config, memo>>

\* lines 36-45 raise before a child exists; lines 67-69 handle it
\* (faulty variant: no try/except around subprocess.run)
LaunchRaisesUncaught(e) ==
    /\ pc = "call"
    /\ Total(rekor_check_total) < MaxCount
    /\ raised' = e
    /\ pc' = "exited"
    /\ cmd' = Command(checkpoint_path, rekor_server_endpoint)
    /\ UNCHANGED <<rekor_check_total, result, outcome, log, config,
                   children, before, memo>>
\* (faulty variant: after a caught exception the loop skips the sleep)
LaunchRaisesNoSleep(e) ==
    /\ pc = "call"
    /\ Total(rekor_check_total) < MaxCount
    /\ result' = NoResult
    /\ outcome' = "None"
    /\ raised' = e
    /\ rekor_check_total' = ExceptCounter(rekor_check_total)
    /\ log' = ExceptLog(e)
    /\ pc' = "call"
    /\ before' = rekor_check_total
    /\ cmd' = Command(checkpoint_path, rekor_server_endpoint)
    /\ UNCHANGED <<config, children, memo>>
LaunchRaises(e) ==
    /\ Enter
    /\ result' = NoResult
    /\ outcome' = "None"
    /\ raised' = e
    /\ rekor_check_total' = ExceptCounter(rekor_check_total)
    /\ log' = ExceptLog(e)
    /\ pc' = "sleep"
    /\ before' = rekor_check_total
    /\ cmd' = Command(checkpoint_path, rekor_server_endpoint)
    /\ UNCHANGED <<config, children, memo>>

\* line 46: the text the markers are looked for in
\* (faulty variant: both streams are searched)
SearchedBoth(r) == lower(r.stdout \o r.stderr)
Searched(r) == lower(r.stderr)

\* the child exits, subprocess.run returns, lines 46-66 run; outs and errs
\* are the texts the child may have written
ExitsWith(outs, errs) ==
    /\ pc = "running"
    /\ \E rc \in ReturnCodes, out \in outs, err \in errs :
          LET r == [returncode |-> rc, stdout |-> out, stderr |-> err]
              o == classify(r.returncode, Searched(r))
          IN  /\ result' = r
              /\ outcome' = o
              /\ rekor_check_total' = Recorded(rekor_check_total, o)
              /\ log' = Logged(o, r)
    /\ raised' = "None"
    /\ children' = children - 1
    /\ pc' = "sleep"
    /\ UNCHANGED <<config, before, memo, cmd>>

VerifierExits == ExitsWith(Stdouts, Stderrs)
VerifierExitsOneLine == ExitsWith(OneLineStdouts, OneLineStderrs)

\* the child exits but subprocess.run raises while decoding its output
CaptureRaises(e) ==
    /\ pc = "running"
    /\ raised' = e
    /\ rekor_check_total' = ExceptCounter(rekor_check_total)
    /\ log' = ExceptLog(e)
    /\ children' = children - 1
    /\ pc' = "sleep"
    /\ UNCHANGED <<result, outcome, config, before, memo, cmd>>

\* line 74: time.sleep(check_interval) returns
\* (faulty variant: no while loop, the process ends after one check)
SleepThenExit ==
    /\ pc = "sleep"
    /\ check_interval >= 0
    /\ pc' = "exited"
    /\ UNCHANGED <<rekor_check_total, result, outcome, raised, log,
                   config, children, before, memo, cmd>>
SleepReturns ==
    /\ pc = "sleep"
    /\ check_interval >= 0
    /\ pc' = "call"
    /\ UNCHANGED <<rekor_check_total, result, outcome, raised, log,
                   config, children, before, memo, cmd>>

\* line 74: time.sleep raises ValueError on a negative length; nothing
\* catches it and the process exits
SleepRaises ==
    /\ pc = "sleep"
    /\ check_interval < 0
    /\ pc' = "exited"
    /\ UNCHANGED <<rekor_check_total, result, outcome, raised, log,
                   config, children, before, memo, cmd>>

Next ==
    \/ Launch
    \/ \E e \in LaunchErrors : LaunchRaises(e)
    \/ VerifierExits
    \/ \E e \in CaptureErrors : CaptureRaises(e)
    \/ SleepReturns
    \/ SleepRaises

Spec == Init /\ [][Next]_vars

\* The same program with a verifier that writes at most one message, when
\* every sleep that can end does end, every started verifier exits, and the
\* interpreter goes on to the next call.
NextOneLine ==
    \/ Launch
    \/ \E e \in LaunchErrors : LaunchRaises(e)
    \/ VerifierExitsOneLine
    \/ \E e \in CaptureErrors : CaptureRaises(e)
    \/ SleepReturns
    \/ SleepRaises

FairSpec ==
    /\ Init /\ [][NextOneLine]_vars
    /\ WF_vars(SleepReturns)
    /\ WF_vars(VerifierExitsOneLine \/ \E e \in CaptureErrors : CaptureRaises(e))
    /\ WF_vars(Launch \/ \E e \in LaunchErrors : LaunchRaises(e))

\* An observer keeps one classified call of run_rekor_monitor: its result,
\* the branch it took, what it added to each count, and the total after it.
Remember ==
    /\ pc = "sleep"
    /\ raised = "None"
    /\ outcome # "None"
    /\ ~memo.set
    /\ memo' = [set |-> TRUE, result |-> result, outcome |-> outcome,
                dSuccess |-> Value(rekor_check_total, "success")
                               - Value(before, "success"),
                dFailure |-> Value(rekor_check_total, "failure")
                               - Value(before, "failure"),
                total |-> Total(rekor_check_total)]
    /\ UNCHANGED <<pc, rekor_check_total, result, outcome, raised, log,
                   config, children, before, cmd>>

\* The program with a verifier that writes at most one message, and the
\* observer.
MemoSpec == Init /\ [][NextOneLine \/ Remember]_vars

(***************************************************************************)
(* Vocabulary of the properties.                                           *)
(***************************************************************************)
\* a call of run_rekor_monitor returns in this step
Finishes == pc \in {"call", "running"} /\ pc' = "sleep"
\* ... after subprocess.run returned a result and lines 46-66 ran
Classifies == pc = "running" /\ pc' = "sleep" /\ raised' = "None"
\* ... through the except clause
Catches == Finishes /\ raised' # "None"

dSuccess == Value(rekor_check_total', "success") - Value(rekor_check_total, "success")
dFailure == Value(rekor_check_total', "failure") - Value(rekor_check_total, "failure")

\* the marker occurs in the text, whatever the letter case of the text
ContainsAnyCase(m, t) ==
    \E i \in 1..(Len(t) - Len(m) + 1) :
        \A j \in 1..Len(m) : t[i + j - 1].w = m[j].w
\* the marker occurs in what the verifier wrote, on either stream
OutputContains(m, r) ==
    ContainsAnyCase(m, r.stdout) \/ ContainsAnyCase(m, r.stderr)

Skips == {"SkippedEmptyLog", "SkippedNoCheckpoint"}

\* the sum of all series of the counter, whatever their labels
RECURSIVE SumOver(_, _)
SumOver(c, ls) ==
    IF ls = {} THEN 0
    ELSE LET l == CHOOSE x \in ls : TRUE IN c[l] + SumOver(c, ls \ {l})
Sum(c) == SumOver(c, DOMAIN c)
dAll == Sum(rekor_check_total') - Sum(rekor_check_total)

(***************************************************************************)
(* C1                                                                      *)
(***************************************************************************)
\* C1: a check cycle changes the counters by zero or one increment in total:
\* none on a skip, one on the success label for Success, one on the failure
\* label for Failure or a caught exception; the step that starts the verifier
\* and the sleep change nothing.
C1_OneIncrementPerCycle ==
    [][ /\ ~Finishes => rekor_check_total' = rekor_check_total
        /\ Finishes =>
             /\ dSuccess \in {0, 1} /\ dFailure \in {0, 1}
             /\ dAll = dSuccess + dFailure
             /\ dAll \in {0, 1}
             /\ (Classifies /\ outcome' \in Skips) => dAll = 0
             /\ (Classifies /\ outcome' = "Success") => dSuccess = 1 /\ dFailure = 0
             /\ (Classifies /\ outcome' = "Failure") => dSuccess = 0 /\ dFailure = 1
             /\ Catches => dSuccess = 0 /\ dFailure = 1
      ]_vars

\* three cycles: a success, a failure, then a skip that leaves both counts
C1_Witness ==
    /\ pc = "sleep"
    /\ outcome = "SkippedEmptyLog"
    /\ Value(rekor_check_total, "success") = 1
    /\ Value(rekor_check_total, "failure") = 1

(***************************************************************************)
(* C2                                                                      *)
(***************************************************************************)
\* C2 as written: exit code 0 and "consistency verified", in any letter case,
\* somewhere in the verifier's output (either stream): the cycle is Success,
\* the success count goes up by one and the failure count stays.
C2_AnyStream ==
    [][ ( /\ Classifies
          /\ result'.returncode = 0
          /\ OutputContains(CONSISTENCY_VERIFIED, result') )
        => outcome' = "Success" /\ dSuccess = 1 /\ dFailure = 0
      ]_vars

\* C2, amended: exit code 0 and "consistency verified", in any letter case,
\* in the verifier's standard error: the cycle is Success, the success count
\* goes up by one and the failure count stays.
C2_SuccessOnStderr ==
    [][ ( /\ Classifies
          /\ result'.returncode = 0
          /\ ContainsAnyCase(CONSISTENCY_VERIFIED, result'.stderr) )
        => outcome' = "Success" /\ dSuccess = 1 /\ dFailure = 0
      ]_vars

\* the scenario of the specification, as the first check of the process
C2_Witness ==
    /\ pc = "sleep"
    /\ result.returncode = 0
    /\ result.stderr = Verified42
    /\ outcome = "Success"
    /\ rekor_check_total = [l \in {"success"} |-> 1]

(***************************************************************************)
(* C3                                                                      *)
(***************************************************************************)
\* C3 as written: exit code 0, the empty-log marker in the output and
\* "consistency verified" nowhere in it: the cycle is SkippedEmptyLog and no
\* count changes.
C3_AnyStream ==
    [][ ( /\ Classifies
          /\ result'.returncode = 0
          /\ OutputContains(EMPTY_LOG, result')
          /\ ~OutputContains(CONSISTENCY_VERIFIED, result') )
        => /\ outcome' = "SkippedEmptyLog"
           /\ rekor_check_total' = rekor_check_total
      ]_vars

\* C3, amended: exit code 0, the empty-log marker in standard error and
\* "consistency verified" not in standard error: the cycle is SkippedEmptyLog
\* and no count changes.
C3_EmptyLogOnStderr ==
    [][ ( /\ Classifies
          /\ result'.returncode = 0
          /\ ContainsAnyCase(EMPTY_LOG, result'.stderr)
          /\ ~ContainsAnyCase(CONSISTENCY_VERIFIED, result'.stderr) )
        => /\ outcome' = "SkippedEmptyLog"
           /\ rekor_check_total' = rekor_check_total
      ]_vars

\* the scenario of the specification, after one counted failure
C3_Witness ==
    /\ pc = "sleep"
    /\ result.returncode = 0
    /\ result.stderr = EmptyLogError
    /\ outcome = "SkippedEmptyLog"
    /\ rekor_check_total = [l \in {"failure"} |-> 1]

(***************************************************************************)
(* C4                                                                      *)
(***************************************************************************)
\* C4 as written, reading "output" as the stream the code reads: any exit
\* code and the no-checkpoint marker in standard error: the cycle is
\* SkippedNoCheckpoint and no count changes.
C4_AnyResult ==
    [][ ( /\ Classifies
          /\ ContainsAnyCase(NO_CHECKPOINT, result'.stderr) )
        => /\ outcome' = "SkippedNoCheckpoint"
           /\ rekor_check_total' = rekor_check_total
      ]_vars

\* C4, amended: the no-checkpoint marker in standard error, and not exit
\* code 0 together with "consistency verified" or the empty-log marker in
\* standard error: the cycle is SkippedNoCheckpoint and no count changes.
C4_NoCheckpointUnlessEarlierRule ==
    [][ ( /\ Classifies
          /\ ContainsAnyCase(NO_CHECKPOINT, result'.stderr)
          /\ ~( /\ result'.returncode = 0
                /\ \/ ContainsAnyCase(CONSISTENCY_VERIFIED, result'.stderr)
                   \/ ContainsAnyCase(EMPTY_LOG, result'.stderr) ) )
        => /\ outcome' = "SkippedNoCheckpoint"
           /\ rekor_check_total' = rekor_check_total
      ]_vars

\* the scenario of the specification (exit code 1), after one counted success
C4_Witness ==
    /\ pc = "sleep"
    /\ result.returncode = 1
    /\ result.stderr = NoCheckpointAt
    /\ outcome = "SkippedNoCheckpoint"
    /\ rekor_check_total = [l \in {"success"} |-> 1]

(***************************************************************************)
(* C5                                                                      *)
(***************************************************************************)
\* C5: a result that matches none of the three marker rules is a Failure:
\* the failure count goes up by one and the success count stays.
C5_OtherwiseFailure ==
    [][ ( /\ Classifies
          /\ ~( /\ result'.returncode = 0
                /\ ContainsAnyCase(CONSISTENCY_VERIFIED, result'.stderr) )
          /\ ~( /\ result'.returncode = 0
                /\ ContainsAnyCase(EMPTY_LOG, result'.stderr) )
          /\ ~ContainsAnyCase(NO_CHECKPOINT, result'.stderr) )
        => outcome' = "Failure" /\ dSuccess = 0 /\ dFailure = 1
      ]_vars

\* the scenario of the specification: exit code 1, "connection refused"
C5_Witness ==
    /\ pc = "sleep"
    /\ result.returncode = 1
    /\ result.stderr = ConnectionRefused
    /\ outcome = "Failure"
    /\ rekor_check_total = [l \in {"failure"} |-> 1]

(***************************************************************************)
(* C6                                                                      *)
(***************************************************************************)
\* C6: when starting the verifier (or any other part of the invocation)
\* raises, the exception is caught: the failure count goes up by one, the
\* success count stays, and control is back in the loop at the sleep; the
\* process exits from nowhere inside the check.
C6_RaiseCountedAndCaught ==
    [][ /\ (pc \in {"call", "running"} /\ raised' # "None")
            => dFailure = 1 /\ dSuccess = 0 /\ pc' = "sleep"
        /\ pc \in {"call", "running"} => pc' # "exited"
      ]_vars

\* ./rekor_monitor is missing on the first check
C6_Witness ==
    /\ pc = "sleep"
    /\ raised = "FileNotFoundError"
    /\ outcome = "None"
    /\ rekor_check_total = [l \in {"failure"} |-> 1]

(***************************************************************************)
(* C7                                                                      *)
(***************************************************************************)
\* what C7 asks of one step of the loop: a raise inside the check leads to
\* the sleep, the sleep leads back to the call, the call starts an attempt,
\* and no step ends the process
LoopStep ==
    /\ (pc \in {"call", "running"} /\ raised' # "None") => pc' = "sleep"
    /\ pc = "sleep" => pc' = "call"
    /\ pc = "call" => pc' \in {"running", "sleep"}
    /\ pc' # "exited"
\* ... and of one state: the sleep can end, and at the call the next attempt
\* can be made (below the bound of the model)
LoopGoesOn ==
    /\ pc # "exited"
    /\ pc = "sleep" => ENABLED SleepReturns
    /\ (pc = "call" /\ Total(rekor_check_total) < MaxCount)
          => ENABLED (Launch \/ \E e \in LaunchErrors : LaunchRaises(e))

\* C7 as written: an error raised by the check never ends the loop: after N
\* consecutive raising cycles the loop sleeps once and makes attempt N+1,
\* and the process does not exit.
C7_AlwaysResilient == []LoopGoesOn /\ [][LoopStep]_vars

\* C7, amended: the same, provided time.sleep accepts the configured check
\* interval (it raises ValueError on a negative one, outside the try, and
\* the process exits after the first check).
C7_ResilientWhenIntervalValid ==
    /\ [](check_interval >= 0 => LoopGoesOn)
    /\ [][check_interval >= 0 => LoopStep]_vars

\* the third check in a row that raised, the loop sleeping after it
C7_Witness ==
    /\ pc = "sleep"
    /\ check_interval >= 0
    /\ raised \in LaunchErrors
    /\ rekor_check_total = [l \in {"failure"} |-> 3]

(***************************************************************************)
(* C8                                                                      *)
(***************************************************************************)
\* C8 as written: every check cycle emits exactly one log line, whatever
\* its outcome (a printed line counted as a log line).
C8_OneLinePerCycle == pc = "sleep" => Len(log) = 1

\* C8, amended: a cycle that ends in Success, in a skip or in a caught
\* exception makes exactly one logging call or print; a cycle classified
\* Failure makes exactly two logging calls, the FAILURE message and the
\* captured standard error.
C8_OneRecordTwoOnFailure ==
    pc = "sleep" =>
        /\ raised # "None" => Len(log) = 1
        /\ (raised = "None" /\ outcome \in {"Success"} \cup Skips) => Len(log) = 1
        /\ (raised = "None" /\ outcome = "Failure") =>
              /\ Len(log) = 2
              /\ log[1].msg = "Rekor consistency check: FAILURE"
              /\ log[2].text = result.stderr

\* exit code 1 and "connection refused": two records
C8_Witness ==
    /\ pc = "sleep"
    /\ outcome = "Failure"
    /\ result.stderr = ConnectionRefused
    /\ Len(log) = 2

(***************************************************************************)
(* C9                                                                      *)
(***************************************************************************)
\* C9: every Failure, a caught exception included, is logged through the
\* logger at ERROR with its diagnostic text (the captured standard error, or
\* the exception); Success and the skips are logged at INFO, never at ERROR.
C9_FailureAtErrorLevel ==
    pc = "sleep" =>
        /\ log # <<>>
        /\ (raised = "None" /\ outcome = "Failure") =>
              /\ \A i \in 1..Len(log) :
                    log[i].channel = "logger" /\ log[i].level = "ERROR"
              /\ \E i \in 1..Len(log) : log[i].text = result.stderr
        /\ raised # "None" =>
              /\ \A i \in 1..Len(log) :
                    log[i].channel = "logger" /\ log[i].level = "ERROR"
              /\ \E i \in 1..Len(log) : log[i].text = <<U(raised)>>
        /\ (raised = "None" /\ outcome \in {"Success"} \cup Skips) =>
              \A i \in 1..Len(log) :
                    log[i].channel = "logger" /\ log[i].level = "INFO"

(***************************************************************************)
(* C10                                                                     *)
(***************************************************************************)
\* C10: the counter only ever has series labelled success and failure; no
\* step removes a series or lowers a count, and a skip creates no series.
C10_TwoLabelsMonotone ==
    /\ [](DOMAIN rekor_check_total \subseteq Labels)
    /\ [][ /\ \A l \in DOMAIN rekor_check_total :
                /\ l \in DOMAIN rekor_check_total'
                /\ rekor_check_total'[l] >= rekor_check_total[l]
           /\ (Classifies /\ outcome' \in Skips) =>
                DOMAIN rekor_check_total' = DOMAIN rekor_check_total
         ]_vars

\* both series exist and a skip has just left them as they were
C10_Witness ==
    /\ pc = "sleep"
    /\ outcome = "SkippedNoCheckpoint"
    /\ rekor_check_total = [l \in Labels |-> 1]

(***************************************************************************)
(* C11                                                                     *)
(***************************************************************************)
\* C11: at most one verifier runs at any time, and it runs exactly while
\* subprocess.run blocks; a verifier is started only from the call at line
\* 73, with no verifier running, and the call is reached only at start-up or
\* from a sleep that followed a finished (classified and recorded) check.
C11_OneInFlight ==
    /\ [](children \in {0, 1} /\ (children = 1 <=> pc = "running"))
    /\ [][ /\ children' > children =>
                children = 0 /\ pc = "call" /\ pc' = "running"
           /\ (pc # "call" /\ pc' = "call") =>
                pc = "sleep" /\ children = 0
           /\ pc' = "sleep" =>
                children' = 0 /\ (pc = "running" => children = 1)
         ]_vars

\* the second verifier of the process is running, the first one counted
C11_Witness ==
    /\ pc = "running"
    /\ children = 1
    /\ Total(rekor_check_total) = 1

(***************************************************************************)
(* C12                                                                     *)
(***************************************************************************)
\* C12 as written: first match wins, on the verifier's output (either
\* stream): exit code 0 and "consistency verified" is Success even with the
\* empty-log or the no-checkpoint marker also there; exit code 0 and the
\* empty-log marker without "consistency verified" is SkippedEmptyLog even
\* with the no-checkpoint marker also there.
C12_PriorityAnyStream ==
    [][ Classifies /\ result'.returncode = 0 =>
          /\ ( /\ OutputContains(CONSISTENCY_VERIFIED, result')
               /\ \/ OutputContains(EMPTY_LOG, result')
                  \/ OutputContains(NO_CHECKPOINT, result') )
             => outcome' = "Success"
          /\ ( /\ OutputContains(EMPTY_LOG, result')
               /\ OutputContains(NO_CHECKPOINT, result')
               /\ ~OutputContains(CONSISTENCY_VERIFIED, result') )
             => outcome' = "SkippedEmptyLog"
      ]_vars

\* C12, amended: first match wins, on standard error: exit code 0 and
\* "consistency verified" is Success even with the empty-log or the
\* no-checkpoint marker also in standard error; exit code 0 and the
\* empty-log marker without "consistency verified" is SkippedEmptyLog even
\* with the no-checkpoint marker also in standard error.
C12_PriorityOnStderr ==
    [][ Classifies /\ result'.returncode = 0 =>
          /\ ( /\ ContainsAnyCase(CONSISTENCY_VERIFIED, result'.stderr)
               /\ \/ ContainsAnyCase(EMPTY_LOG, result'.stderr)
                  \/ ContainsAnyCase(NO_CHECKPOINT, result'.stderr) )
             => outcome' = "Success"
          /\ ( /\ ContainsAnyCase(EMPTY_LOG, result'.stderr)
               /\ ContainsAnyCase(NO_CHECKPOINT, result'.stderr)
               /\ ~ContainsAnyCase(CONSISTENCY_VERIFIED, result'.stderr) )
             => outcome' = "SkippedEmptyLog"
      ]_vars

\* the no-checkpoint message followed by the success message, exit code 0
C12_Witness ==
    /\ pc = "sleep"
    /\ result.returncode = 0
    /\ result.stderr = NoCheckpointAt \o Verified42
    /\ outcome = "Success"
    /\ Value(rekor_check_total, "success") = 1

(***************************************************************************)
(* C13                                                                     *)
(***************************************************************************)
\* C13 as written: with a non-zero exit code the outcome is never Success
\* and never SkippedEmptyLog; it is SkippedNoCheckpoint when the output
\* (either stream) contains the no-checkpoint marker and Failure otherwise.
C13_NonZeroAnyStream ==
    [][ Classifies /\ result'.returncode # 0 =>
          /\ outcome' \notin {"Success", "SkippedEmptyLog"}
          /\ OutputContains(NO_CHECKPOINT, result')
                => outcome' = "SkippedNoCheckpoint"
          /\ ~OutputContains(NO_CHECKPOINT, result')
                => outcome' = "Failure"
      ]_vars

\* C13, amended: with a non-zero exit code the outcome is never Success and
\* never SkippedEmptyLog; it is SkippedNoCheckpoint when standard error
\* contains the no-checkpoint marker and Failure otherwise.
C13_NonZeroOnStderr ==
    [][ Classifies /\ result'.returncode # 0 =>
          /\ outcome' \notin {"Success", "SkippedEmptyLog"}
          /\ ContainsAnyCase(NO_CHECKPOINT, result'.stderr)
                => outcome' = "SkippedNoCheckpoint"
          /\ ~ContainsAnyCase(NO_CHECKPOINT, result'.stderr)
                => outcome' = "Failure"
      ]_vars

\* killed by a signal after writing the empty-log message: a Failure
C13_Witness ==
    /\ pc = "sleep"
    /\ result.returncode = -9
    /\ result.stderr = EmptyLogError
    /\ outcome = "Failure"
    /\ Value(rekor_check_total, "failure") = 1

(***************************************************************************)
(* C14                                                                     *)
(***************************************************************************)
\* C14: the steps of a cycle come in the order invoke, classify, record,
\* sleep: a branch is taken and the counter changes only in the step in
\* which the check ends, with no verifier running any more and the loop
\* arriving at the sleep; every check, also one that ended in a caught
\* exception, is followed by the sleep, and nothing is counted during it.
C14_InvokeClassifyRecordSleep ==
    [][ /\ rekor_check_total' # rekor_check_total =>
              Finishes /\ children' = 0
        /\ (outcome' # outcome /\ outcome' # "None") =>
              pc = "running" /\ children = 1 /\ pc' = "sleep"
        /\ pc = "call" => pc' \in {"running", "sleep"}
        /\ pc = "running" => pc' = "sleep"
        /\ Catches => pc' = "sleep"
        /\ pc = "sleep" =>
              /\ pc' \in {"call", "exited"}
              /\ rekor_check_total' = rekor_check_total
      ]_vars

\* the second check in a row that raised, the loop at the sleep after it
C14_Witness ==
    /\ pc = "sleep"
    /\ raised \in LaunchErrors \cup CaptureErrors
    /\ children = 0
    /\ rekor_check_total = [l \in {"failure"} |-> 2]

(***************************************************************************)
(* C15                                                                     *)
(***************************************************************************)
\* C15 as written: the loop has no exit path: no terminated state is
\* reachable, and when verifiers exit and sleeps end, every completed cycle
\* is followed by another invocation (below the bound of the model): a
\* running verifier is followed by the sleep, the sleep by the call, the
\* call by the next attempt to start the verifier.
C15_NoExitPath ==
    /\ [](pc # "exited")
    /\ (pc = "running") ~> (pc = "sleep")
    /\ (pc = "sleep") ~> (pc = "call")
    /\ (pc = "call" /\ Total(rekor_check_total) < MaxCount)
          ~> (pc \in {"running", "sleep"})

\* C15, amended: the same, provided time.sleep accepts the configured check
\* interval (it raises ValueError on a negative one and the process exits).
C15_NoExitPathWhenIntervalValid ==
    /\ [](check_interval >= 0 => pc # "exited")
    /\ (check_interval >= 0 /\ pc = "running") ~> (pc = "sleep")
    /\ (check_interval >= 0 /\ pc = "sleep") ~> (pc = "call")
    /\ (check_interval >= 0 /\ pc = "call"
            /\ Total(rekor_check_total) < MaxCount)
          ~> (pc \in {"running", "sleep"})

\* back at the call after two completed cycles, about to invoke again
C15_Witness ==
    /\ pc = "call"
    /\ check_interval >= 0
    /\ Total(rekor_check_total) = 2
    /\ outcome = "Success"

(***************************************************************************)
(* C16                                                                     *)
(***************************************************************************)
\* the latest call was classified, and an earlier call is remembered
Comparable == pc = "sleep" /\ raised = "None" /\ outcome # "None" /\ memo.set
\* what the latest call added to each count
AddedSuccess == Value(rekor_check_total, "success") - Value(before, "success")
AddedFailure == Value(rekor_check_total, "failure") - Value(before, "failure")

\* C16: two cycles with the same exit code, standard output and standard
\* error take the same branch and add the same amount to the same label,
\* whatever the counts were and however many cycles ran before.
C16_SameResultSameOutcome ==
    (Comparable /\ memo.result = result) =>
        /\ outcome = memo.outcome
        /\ AddedSuccess = memo.dSuccess
        /\ AddedFailure = memo.dFailure

\* the same failing result again, with a higher failure count than the
\* first time it was seen
C16_Witness ==
    /\ Comparable
    /\ memo.result = result
    /\ outcome = "Failure"
    /\ result.stderr = ConnectionRefused
    /\ memo.total < Total(rekor_check_total)

(***************************************************************************)
(* C17                                                                     *)
(***************************************************************************)
Outcomes == {"Success", "SkippedEmptyLog", "SkippedNoCheckpoint", "Failure"}

\* what each branch leaves behind: its count and its first log record
Trace(o) ==
    [Success |-> <<1, 0, "Rekor consistency check: SUCCESS">>,
     SkippedEmptyLog |->
        <<0, 0, "Rekor consistency check skipped: log is empty (not an error)">>,
     SkippedNoCheckpoint |->
        <<0, 0, "Rekor consistency check skipped: no checkpoint found (first run)">>,
     Failure |-> <<0, 1, "Rekor consistency check: FAILURE">>][o]

\* C17: every result a verifier returns is classified as exactly one of the
\* four outcomes: the branch taken is one of the four, and the count and the
\* log record of the cycle are those of exactly one of them; a cycle without
\* a classified result is one that ended in the except clause.
C17_ExactlyOneOutcome ==
    [][ /\ Classifies =>
             /\ outcome' \in Outcomes
             /\ {o \in Outcomes :
                    /\ Trace(o) = <<dSuccess, dFailure, log'[1].msg>>
                    /\ \A i \in 1..Len(log') :
                          log'[i].level = (IF o = "Failure" THEN "ERROR" ELSE "INFO")
                } = {outcome'}
        /\ (Finishes /\ ~Classifies) => raised' # "None" /\ outcome' = "None"
      ]_vars

\* exit code 1 and both skip messages: one outcome, SkippedNoCheckpoint
C17_Witness ==
    /\ pc = "sleep"
    /\ result.returncode = 1
    /\ result.stderr = EmptyLogError \o NoCheckpointAt
    /\ outcome = "SkippedNoCheckpoint"

(***************************************************************************)
(* C18                                                                     *)
(***************************************************************************)
\* C18: two cycles with the same exit code and the same standard error take
\* the same branch and add the same amount to the same label, whatever
\* their standard outputs are.
C18_StdoutIgnored ==
    ( /\ Comparable
      /\ memo.result.returncode = result.returncode
      /\ memo.result.stderr = result.stderr )
    => /\ outcome = memo.outcome
       /\ AddedSuccess = memo.dSuccess
       /\ AddedFailure = memo.dFailure

\* exit code 0 and "connection refused" on standard error, once with
\* nothing and once with the success message on standard output: Failure
\* both times
C18_Witness ==
    /\ Comparable
    /\ memo.result.returncode = 0 /\ result.returncode = 0
    /\ memo.result.stderr = ConnectionRefused
    /\ result.stderr = ConnectionRefused
    /\ memo.result.stdout = <<>>
    /\ result.stdout = Verified42
    /\ outcome = "Failure"
    /\ memo.total < Total(rekor_check_total)

(***************************************************************************)
(* C19                                                                     *)
(***************************************************************************)
\* C19: every invocation uses the same command, ./rekor_monitor with the
\* three arguments --file=<checkpoint directory>/checkpoint_log.txt,
\* --once=true and --url=<endpoint>, and no step changes the checkpoint
\* directory or path, the endpoint or the check interval.
C19_ConfigurationFixed ==
    /\ [](cmd # <<>> =>
            /\ Len(cmd) = 4
            /\ cmd[1] = [name |-> "./rekor_monitor", value |-> <<>>]
            /\ cmd[2] = [name |-> "--file",
                         value |-> <<checkpoint_dir, "checkpoint_log.txt">>]
            /\ cmd[3] = [name |-> "--once", value |-> <<"true">>]
            /\ cmd[4] = [name |-> "--url", value |-> <<rekor_server_endpoint>>])
    /\ [][ /\ config' = config
           /\ cmd # <<>> => cmd' = cmd
           /\ (pc = "call" /\ pc' # "call") => cmd' # <<>>
         ]_vars

\* the private deployment, three checks made: a success, a skip and one
\* that could not start the verifier
C19_Witness ==
    /\ pc = "sleep"
    /\ checkpoint_dir = "/var/rekor"
    /\ cmd # <<>>
    /\ cmd[2].value = <<"/var/rekor", "checkpoint_log.txt">>
    /\ cmd[4].value = <<"http://rekor-server:3000">>
    /\ raised \in LaunchErrors
    /\ rekor_check_total = [l \in Labels |-> 1]

====
